---- MODULE Spec2Model ----
(***************************************************************************)
(* SecureStore (src/main.go): an in-memory secret store.  A random master  *)
(* key, one derived key per identifier, AES-GCM sealed values, and the    *)
(* wipe protocol.  Callers are goroutines; every method is modelled as    *)
(* the sequence of steps it takes between acquiring and releasing s.mu.   *)
(*                                                                         *)
(* Byte buffers live in `heap` (a slice is the address of its backing     *)
(* array), [32]byte keys are values.  crypto/aes and crypto/cipher are    *)
(* library code: they are modelled by byte arithmetic that keeps what the *)
(* store relies on - Encrypt is a permutation of blocks for a fixed key,  *)
(* Open inverts Seal under the same key and nonce and rejects any blob    *)
(* whose tag does not match.                                              *)
(***************************************************************************)
EXTENDS Integers, Sequences, FiniteSets, TLC

\* ---- bounds of the model ----
MaxCalls == 3          \* method calls issued by the callers altogether
MaxLen == 1            \* longest plaintext a caller passes to Set
MaxSuffix == 1         \* longest suffix of an identifier given to deriveKey

\* ---- program constants ----
KeySize == 32          \* [32]byte
BlockSize == 16        \* aes.BlockSize
CtrOffset == 8         \* block[8:]
NonceSize == 12        \* gcm.NonceSize()
TagSize == 16          \* gcm.Overhead()
ByteMod == 256
GCOff == -1            \* debug.SetGCPercent(-1)

Threads == {"t1", "t2"}
None == "none"

\* identifiers are strings, here the sequences of their bytes
StoreIds == {<<107>>, <<112>>}
PlainBytes == {115}
NonceBytes == {7}
MasterBytes == {41}

RECURSIVE SeqsUpTo(_, _)
SeqsUpTo(S, n) ==
    IF n = 0 THEN {<<>>}
    ELSE LET shorter == SeqsUpTo(S, n - 1)
         IN  shorter \cup {Append(s, b) : s \in shorter, b \in S}

Plaintexts == SeqsUpTo(PlainBytes, MaxLen)

IsZero(buf) == \A i \in 1..Len(buf) : buf[i] = 0

RECURSIVE Sum(_)
Sum(s) == IF s = <<>> THEN 0 ELSE s[1] + Sum(Tail(s))

\* ---- wipeBytes / wipeKey ----
\* the loop stops one byte short
wipeBytesShort(buf) == [i \in 1..Len(buf) |-> IF i < Len(buf) THEN 0 ELSE buf[i]]

wipeBytes(buf) == [i \in 1..Len(buf) |-> 0]

wipeKey(k) == [i \in 1..KeySize |-> 0]

\* ---- crypto/aes: one block under a 32-byte key ----
Encrypt(k, block) ==
    [j \in 1..BlockSize |-> (block[j] + k[j] + k[j + BlockSize] + j) % ByteMod]

\* binary.LittleEndian.PutUint64: byte n (from 0) of x
RECURSIVE LEByte(_, _)
LEByte(x, n) == IF n = 0 THEN x % ByteMod ELSE LEByte(x \div ByteMod, n - 1)

stringToBytes(s) == [i \in 1..Len(s) |-> s[i]]

\* the block deriveKey encrypts for offset i of the key
deriveBlock(idBytes, i) ==
    LET copied == [j \in 1..BlockSize |->
                      IF j <= Len(idBytes) THEN idBytes[j] ELSE 0]
    IN  [j \in 1..BlockSize |->
            IF j > CtrOffset THEN LEByte(i, j - CtrOffset - 1) ELSE copied[j]]

deriveKey(mk, id) ==
    LET idBytes == stringToBytes(id)
        enc(i) == Encrypt(mk, deriveBlock(idBytes, i))
    IN  [p \in 1..KeySize |->
            LET i == ((p - 1) \div BlockSize) * BlockSize
            IN  enc(i)[p - i]]

\* ---- crypto/cipher GCM ----
KeyStream(k, nonce, i) ==
    (k[((i - 1) % KeySize) + 1] + nonce[((i - 1) % NonceSize) + 1] + i) % ByteMod

GcmTag(k, nonce, ct) ==
    [j \in 1..TagSize |->
        (k[j] + k[j + TagSize] + Sum(nonce) + Sum(ct) + Len(ct) + j) % ByteMod]

\* gcm.Seal(nil, nonce, pt, nil): ciphertext || tag
Seal(k, nonce, pt) ==
    LET ct == [i \in 1..Len(pt) |-> (pt[i] + KeyStream(k, nonce, i)) % ByteMod]
    IN  ct \o GcmTag(k, nonce, ct)

\* gcm.Open(nil, nonce, c, nil): [ok, pt]
Open(k, nonce, c) ==
    IF Len(c) < TagSize THEN [ok |-> FALSE, pt |-> <<>>]
    ELSE LET n == Len(c) - TagSize
             ct == SubSeq(c, 1, n)
             tag == SubSeq(c, n + 1, Len(c))
         IN  IF GcmTag(k, nonce, ct) # tag THEN [ok |-> FALSE, pt |-> <<>>]
             ELSE [ok |-> TRUE,
                   pt |-> [i \in 1..n |->
                             (ct[i] + ByteMod - KeyStream(k, nonce, i)) % ByteMod]]

\* encryptData with the nonce rand.Reader delivered
encryptData(data, k, nonce) == nonce \o Seal(k, nonce, data)

decryptData(encrypted, k) ==
    IF Len(encrypted) < NonceSize THEN [ok |-> FALSE, pt |-> <<>>]
    ELSE Open(k, SubSeq(encrypted, 1, NonceSize),
              SubSeq(encrypted, NonceSize + 1, Len(encrypted)))

MasterKeys == {[i \in 1..KeySize |-> m] : m \in MasterBytes}
Nonces == {[i \in 1..NonceSize |-> n] : n \in NonceBytes}


VARIABLES
    masterKey,   \* s.masterKey
    dataStore,   \* s.dataStore: identifier -> address of the sealed blob
    keyCache,    \* s.keyCache: identifier -> [32]byte
    gcPercent,   \* the runtime's GC percent, set by debug.SetGCPercent
    writer,      \* s.mu: the goroutine holding the write lock
    readers,     \* s.mu: the goroutines holding a read lock
    heap,        \* address -> backing array of a byte slice still referenced
    ncalls,      \* calls issued so far
    th,          \* per goroutine: position, arguments and locals of its call
    expect,      \* identifier -> the bytes its latest stored Set was given
    tampered,    \* identifiers whose stored blob was corrupted from outside
    idA, idB,    \* deriveKey's inputs, for the derivation properties
    keyA, keyB   \* deriveKey's outputs

storeVars == <<masterKey, dataStore, keyCache, gcPercent, writer, readers>>
deriveVars == <<idA, idB, keyA, keyB>>
vars == <<masterKey, dataStore, keyCache, gcPercent, writer, readers,
          heap, th, ncalls, expect, tampered, idA, idB, keyA, keyB>>

Nil == 0
ZeroKey == [i \in 1..KeySize |-> 0]
EmptyMap == [x \in {} |-> 0]

\* a goroutine outside any call
Idle ==
    [pc |-> "idle", op |-> None, key |-> <<>>, data |-> Nil, plain |-> <<>>,
     itemKey |-> ZeroKey, encrypted |-> Nil, found |-> FALSE, gau |-> None,
     blobs |-> {}, fnOut |-> None, fnCalls |-> 0, ret |-> None,
     outer |-> <<>>]

MapSet(m, k, v) == [x \in DOMAIN m \cup {k} |-> IF x = k THEN v ELSE m[x]]
MapDel(m, k) == [x \in DOMAIN m \ {k} |-> m[x]]

\* make([]byte, ...): a fresh backing array at the first free address
NewAddr ==
    CHOOSE a \in 1..(Cardinality(DOMAIN heap) + 1) :
        a \notin DOMAIN heap /\ \A b \in 1..(a - 1) : b \in DOMAIN heap
Alloc(buf) == MapSet(heap, NewAddr, buf)

\* the backing arrays the store ds and the goroutines thr reference
Refs(ds, thr) ==
    {ds[id] : id \in DOMAIN ds}
        \cup UNION {{thr[t].data, thr[t].encrypted} \cup thr[t].blobs : t \in Threads}
        \cup UNION {{thr[t].outer[i].data : i \in DOMAIN thr[t].outer} :
                        t \in Threads}

\* a return drops the caller's references: only referenced arrays are kept
Collect(ds, thr) == [a \in DOMAIN heap \cap Refs(ds, thr) |-> heap[a]]

\* NewSecureStore: fresh maps, a random master key, registerCleanup
NewSecureStore ==
    /\ masterKey \in MasterKeys
    /\ dataStore = EmptyMap
    /\ keyCache = EmptyMap
    /\ gcPercent = GCOff
    /\ writer = None
    /\ readers = {}

Init ==
    /\ NewSecureStore
    /\ heap = EmptyMap
    /\ th = [t \in Threads |-> Idle]
    /\ ncalls = 0
    /\ expect = EmptyMap
    /\ tampered = {}
    /\ idA = <<>> /\ idB = <<>> /\ keyA = <<>> /\ keyB = <<>>

CanCall(t) == th[t].pc = "idle" /\ ncalls < MaxCalls

\* s.mu.Lock() / s.mu.RLock()
Lock(t, next) ==
    /\ writer = None /\ readers = {}
    /\ writer' = t
    /\ th' = [th EXCEPT ![t].pc = next]
    /\ UNCHANGED <<masterKey, dataStore, keyCache, gcPercent, readers,
                   heap, ncalls, expect, tampered, deriveVars>>

\* a call returns to its caller: to the fn that made it from inside GetAndUse,
\* or else to the goroutine's top level
Return(t) ==
    [th EXCEPT ![t] = IF th[t].outer = <<>> THEN Idle ELSE th[t].outer[1]]

\* ---------------- Set ----------------
CallSet(t, id, v) ==
    /\ CanCall(t)
    /\ heap' = Alloc(v)
    /\ th' = [th EXCEPT ![t] = [Idle EXCEPT !.pc = "set_lock", !.op = "Set",
                                            !.key = id, !.data = NewAddr,
                                            !.plain = v]]
    /\ ncalls' = ncalls + 1
    /\ UNCHANGED <<storeVars, expect, tampered, deriveVars>>

SetLock(t) == th[t].pc = "set_lock" /\ Lock(t, "set_encrypt")

\* the caller's buffer is wiped before it is sealed
SetEncryptAfterWipe(t, nonce) ==
    /\ th[t].pc = "set_encrypt"
    /\ LET k == deriveKey(masterKey, th[t].key)
       IN  /\ heap' = Alloc(encryptData(wipeBytes(heap[th[t].data]), k, nonce))
           /\ th' = [th EXCEPT ![t].pc = "set_store_data", ![t].itemKey = k,
                               ![t].encrypted = NewAddr]
    /\ UNCHANGED <<storeVars, ncalls, expect, tampered, deriveVars>>

\* a Set that finds the master key zero draws a new one before deriving
SetEncryptRekeys(t, nonce) ==
    /\ th[t].pc = "set_encrypt"
    /\ IF IsZero(masterKey) THEN masterKey' \in MasterKeys
                            ELSE masterKey' = masterKey
    /\ LET k == deriveKey(masterKey', th[t].key)
       IN  /\ heap' = Alloc(encryptData(heap[th[t].data], k, nonce))
           /\ th' = [th EXCEPT ![t].pc = "set_store_data", ![t].itemKey = k,
                               ![t].encrypted = NewAddr]
    /\ UNCHANGED <<dataStore, keyCache, gcPercent, writer, readers,
                   ncalls, expect, tampered, deriveVars>>

\* itemKey := s.deriveKey(key); encrypted, err := s.encryptData(data, itemKey)
SetEncrypt(t, nonce) ==
    /\ th[t].pc = "set_encrypt"
    /\ LET k == deriveKey(masterKey, th[t].key)
       IN  /\ heap' = Alloc(encryptData(heap[th[t].data], k, nonce))
           /\ th' = [th EXCEPT ![t].pc = "set_store_data", ![t].itemKey = k,
                               ![t].encrypted = NewAddr]
    /\ UNCHANGED <<storeVars, ncalls, expect, tampered, deriveVars>>

\* the derived key is cached before the data is sealed
SetEncryptFailKeyCached(t) ==
    /\ th[t].pc = "set_encrypt"
    /\ keyCache' = MapSet(keyCache, th[t].key, deriveKey(masterKey, th[t].key))
    /\ th' = [th EXCEPT ![t].pc = "set_unlock",
                        ![t].itemKey = deriveKey(masterKey, th[t].key),
                        ![t].ret = "err"]
    /\ UNCHANGED <<masterKey, dataStore, gcPercent, writer, readers,
                   heap, ncalls, expect, tampered, deriveVars>>

\* rand.Reader fails: encryptData returns an error, Set returns it
SetEncryptFail(t) ==
    /\ th[t].pc = "set_encrypt"
    /\ th' = [th EXCEPT ![t].pc = "set_unlock",
                        ![t].itemKey = deriveKey(masterKey, th[t].key),
                        ![t].ret = "err"]
    /\ UNCHANGED <<storeVars, heap, ncalls, expect, tampered, deriveVars>>

\* s.dataStore[key] = encrypted
SetStoreData(t) ==
    /\ th[t].pc = "set_store_data"
    /\ dataStore' = MapSet(dataStore, th[t].key, th[t].encrypted)
    /\ th' = [th EXCEPT ![t].pc = "set_store_key"]
    /\ UNCHANGED <<masterKey, keyCache, gcPercent, writer, readers,
                   heap, ncalls, expect, tampered, deriveVars>>

\* s.keyCache[key] = itemKey
SetStoreKey(t) ==
    /\ th[t].pc = "set_store_key"
    /\ keyCache' = MapSet(keyCache, th[t].key, th[t].itemKey)
    /\ expect' = MapSet(expect, th[t].key, th[t].plain)
    /\ tampered' = tampered \ {th[t].key}
    /\ th' = [th EXCEPT ![t].pc = "set_wipe"]
    /\ UNCHANGED <<masterKey, dataStore, gcPercent, writer, readers,
                   heap, ncalls, deriveVars>>

\* s.wipeBytes(data)
SetWipe(t) ==
    /\ th[t].pc = "set_wipe"
    /\ heap' = [heap EXCEPT ![th[t].data] = wipeBytes(@)]
    /\ th' = [th EXCEPT ![t].pc = "set_unlock", ![t].ret = "ok"]
    /\ UNCHANGED <<storeVars, ncalls, expect, tampered, deriveVars>>

\* deferred s.mu.Unlock(), return
SetUnlock(t) ==
    /\ th[t].pc = "set_unlock"
    /\ writer' = None
    /\ th' = Return(t)
    /\ heap' = Collect(dataStore, th')
    /\ UNCHANGED <<masterKey, dataStore, keyCache, gcPercent, readers,
                   ncalls, expect, tampered, deriveVars>>

\* ---------------- Get ----------------
CallGet(t, id) ==
    /\ CanCall(t)
    /\ th' = [th EXCEPT ![t] = [Idle EXCEPT !.pc = "get_rlock", !.op = "Get",
                                            !.key = id]]
    /\ ncalls' = ncalls + 1
    /\ UNCHANGED <<storeVars, heap, expect, tampered, deriveVars>>

\* the lookup starts without waiting for the writer to leave
GetRLockNoWait(t) ==
    /\ th[t].pc = "get_rlock"
    /\ readers' = readers \cup {t}
    /\ th' = [th EXCEPT ![t].pc = "get_lookup"]
    /\ UNCHANGED <<masterKey, dataStore, keyCache, gcPercent, writer,
                   heap, ncalls, expect, tampered, deriveVars>>

\* s.mu.RLock()
GetRLock(t) ==
    /\ th[t].pc = "get_rlock"
    /\ writer = None
    /\ readers' = readers \cup {t}
    /\ th' = [th EXCEPT ![t].pc = "get_lookup"]
    /\ UNCHANGED <<masterKey, dataStore, keyCache, gcPercent, writer,
                   heap, ncalls, expect, tampered, deriveVars>>

\* the read lock is given up once the two map reads are done
GetLookupUnlocks(t) ==
    /\ th[t].pc = "get_lookup"
    /\ LET id == th[t].key
       IN  IF id \notin DOMAIN dataStore
           THEN th' = [th EXCEPT ![t].pc = "get_runlock"]
           ELSE IF id \notin DOMAIN keyCache
           THEN th' = [th EXCEPT ![t].pc = "get_runlock",
                                 ![t].encrypted = dataStore[id]]
           ELSE th' = [th EXCEPT ![t].pc = "get_decrypt",
                                 ![t].encrypted = dataStore[id],
                                 ![t].itemKey = keyCache[id]]
    /\ readers' = readers \ {t}
    /\ UNCHANGED <<masterKey, dataStore, keyCache, gcPercent, writer,
                   heap, ncalls, expect, tampered, deriveVars>>

\* an absent identifier is answered with an empty slice and true
GetLookupEmptyFound(t) ==
    /\ th[t].pc = "get_lookup"
    /\ LET id == th[t].key
       IN  IF id \notin DOMAIN dataStore
           THEN /\ heap' = Alloc(<<>>)
                /\ th' = [th EXCEPT ![t].pc = "get_runlock", ![t].found = TRUE,
                                    ![t].data = NewAddr]
           ELSE IF id \notin DOMAIN keyCache
           THEN /\ heap' = heap
                /\ th' = [th EXCEPT ![t].pc = "get_runlock",
                                    ![t].encrypted = dataStore[id]]
           ELSE /\ heap' = heap
                /\ th' = [th EXCEPT ![t].pc = "get_decrypt",
                                    ![t].encrypted = dataStore[id],
                                    ![t].itemKey = keyCache[id]]
    /\ UNCHANGED <<storeVars, ncalls, expect, tampered, deriveVars>>

\* encrypted, exists := s.dataStore[key]; itemKey, keyExists := s.keyCache[key]
GetLookup(t) ==
    /\ th[t].pc = "get_lookup"
    /\ LET id == th[t].key
       IN  IF id \notin DOMAIN dataStore
           THEN th' = [th EXCEPT ![t].pc = "get_runlock"]
           ELSE IF id \notin DOMAIN keyCache
           THEN th' = [th EXCEPT ![t].pc = "get_runlock",
                                 ![t].encrypted = dataStore[id]]
           ELSE th' = [th EXCEPT ![t].pc = "get_decrypt",
                                 ![t].encrypted = dataStore[id],
                                 ![t].itemKey = keyCache[id]]
    /\ UNCHANGED <<storeVars, heap, ncalls, expect, tampered, deriveVars>>

\* decryptData's error is dropped: decrypted, _ := ...; return decrypted, true
GetDecryptIgnoreErr(t) ==
    /\ th[t].pc = "get_decrypt"
    /\ LET r == decryptData(heap[th[t].encrypted], th[t].itemKey)
       IN  IF r.ok
           THEN /\ heap' = Alloc(r.pt)
                /\ th' = [th EXCEPT ![t].pc = "get_runlock", ![t].found = TRUE,
                                    ![t].data = NewAddr]
           ELSE /\ heap' = heap
                /\ th' = [th EXCEPT ![t].pc = "get_runlock", ![t].found = TRUE]
    /\ UNCHANGED <<storeVars, ncalls, expect, tampered, deriveVars>>

\* decrypted, err := s.decryptData(encrypted, itemKey)
GetDecrypt(t) ==
    /\ th[t].pc = "get_decrypt"
    /\ LET r == decryptData(heap[th[t].encrypted], th[t].itemKey)
       IN  IF r.ok
           THEN /\ heap' = Alloc(r.pt)
                /\ th' = [th EXCEPT ![t].pc = "get_runlock", ![t].found = TRUE,
                                    ![t].data = NewAddr]
           ELSE /\ heap' = heap
                /\ th' = [th EXCEPT ![t].pc = "get_runlock"]
    /\ UNCHANGED <<storeVars, ncalls, expect, tampered, deriveVars>>

\* the read lock is taken by GetAndUse's own lookup and kept while fn runs
GetRUnlockKeptForFn(t) ==
    /\ th[t].pc = "get_runlock"
    /\ readers' = IF th[t].gau = "get" THEN readers ELSE readers \ {t}
    /\ th' = IF th[t].gau = "get"
             THEN [th EXCEPT ![t].pc = "gau_check"]
             ELSE Return(t)
    /\ heap' = Collect(dataStore, th')
    /\ UNCHANGED <<masterKey, dataStore, keyCache, gcPercent, writer,
                   ncalls, expect, tampered, deriveVars>>

\* deferred s.mu.RUnlock(), return (decrypted, found)
GetRUnlock(t) ==
    /\ th[t].pc = "get_runlock"
    /\ readers' = readers \ {t}
    /\ th' = IF th[t].gau = "get"
             THEN [th EXCEPT ![t].pc = "gau_check"]
             ELSE Return(t)
    /\ heap' = Collect(dataStore, th')
    /\ UNCHANGED <<masterKey, dataStore, keyCache, gcPercent, writer,
                   ncalls, expect, tampered, deriveVars>>

\* ---------------- GetAndUse ----------------
FnOutcomes == {"ok", "err", "panic"}

\* data, exists := s.Get(key)
CallGetAndUse(t, id) ==
    /\ CanCall(t)
    /\ th' = [th EXCEPT ![t] = [Idle EXCEPT !.pc = "get_rlock",
                                            !.op = "GetAndUse", !.gau = "get",
                                            !.key = id]]
    /\ ncalls' = ncalls + 1
    /\ UNCHANGED <<storeVars, heap, expect, tampered, deriveVars>>

\* if !exists { return errors.New("key not found") }; defer s.wipeBytes(data)
GetAndUseCheck(t) ==
    /\ th[t].pc = "gau_check"
    /\ th' = IF th[t].found
             THEN [th EXCEPT ![t].pc = "gau_fn", ![t].gau = "fn",
                             ![t].plain = heap[th[t].data]]
             ELSE [th EXCEPT ![t].pc = "gau_err", ![t].ret = "notfound"]
    /\ heap' = Collect(dataStore, th')
    /\ UNCHANGED <<storeVars, ncalls, expect, tampered, deriveVars>>

\* fn's error is dropped: fn(data); return nil
GetAndUseFnSwallow(t, outcome) ==
    /\ th[t].pc = "gau_fn"
    /\ th' = [th EXCEPT ![t].pc = "gau_exit", ![t].fnOut = outcome,
                        ![t].fnCalls = @ + 1,
                        ![t].ret = IF outcome = "panic" THEN "panic" ELSE "ok"]
    /\ UNCHANGED <<storeVars, heap, ncalls, expect, tampered, deriveVars>>

\* return fn(data): fn runs and ends by returning nil, returning an error or
\* panicking, and that is what GetAndUse will hand to its caller
GetAndUseFn(t, outcome) ==
    /\ th[t].pc = "gau_fn"
    /\ th' = [th EXCEPT ![t].pc = "gau_exit", ![t].fnOut = outcome,
                        ![t].fnCalls = @ + 1, ![t].ret = outcome]
    /\ UNCHANGED <<storeVars, heap, ncalls, expect, tampered, deriveVars>>

\* ---------------- calls made by fn from inside GetAndUse ----------------
\* fn is running, has no call of its own in progress, and may make one
InFn(t) == th[t].pc = "gau_fn" /\ th[t].outer = <<>> /\ ncalls < MaxCalls

\* fn calls s.Set(id, v)
FnCallSet(t, id, v) ==
    /\ InFn(t)
    /\ heap' = Alloc(v)
    /\ th' = [th EXCEPT ![t] = [Idle EXCEPT !.pc = "set_lock", !.op = "Set",
                                            !.key = id, !.data = NewAddr,
                                            !.plain = v, !.outer = <<th[t]>>]]
    /\ ncalls' = ncalls + 1
    /\ UNCHANGED <<storeVars, expect, tampered, deriveVars>>

\* fn calls s.Get(id)
FnCallGet(t, id) ==
    /\ InFn(t)
    /\ th' = [th EXCEPT ![t] = [Idle EXCEPT !.pc = "get_rlock", !.op = "Get",
                                            !.key = id, !.outer = <<th[t]>>]]
    /\ ncalls' = ncalls + 1
    /\ UNCHANGED <<storeVars, heap, expect, tampered, deriveVars>>

\* fn calls s.Delete(id)
FnCallDelete(t, id) ==
    /\ InFn(t)
    /\ th' = [th EXCEPT ![t] = [Idle EXCEPT !.pc = "del_lock", !.op = "Delete",
                                            !.key = id, !.outer = <<th[t]>>]]
    /\ ncalls' = ncalls + 1
    /\ UNCHANGED <<storeVars, heap, expect, tampered, deriveVars>>

\* fn calls s.Wipe()
FnCallWipe(t) ==
    /\ InFn(t)
    /\ th' = [th EXCEPT ![t] = [Idle EXCEPT !.pc = "wipe_lock", !.op = "Wipe",
                                            !.outer = <<th[t]>>]]
    /\ ncalls' = ncalls + 1
    /\ UNCHANGED <<storeVars, heap, expect, tampered, deriveVars>>

\* the wipe is a plain statement after fn(data), skipped when fn panics
GetAndUseExitNoDefer(t) ==
    /\ th[t].pc = "gau_exit"
    /\ heap' = IF th[t].fnOut = "panic" THEN heap
               ELSE [heap EXCEPT ![th[t].data] = wipeBytes(@)]
    /\ th' = [th EXCEPT ![t].pc = "gau_ret"]
    /\ UNCHANGED <<storeVars, ncalls, expect, tampered, deriveVars>>

\* the deferred s.wipeBytes(data) runs on every exit of GetAndUse
GetAndUseExit(t) ==
    /\ th[t].pc = "gau_exit"
    /\ heap' = [heap EXCEPT ![th[t].data] = wipeBytes(@)]
    /\ th' = [th EXCEPT ![t].pc = "gau_ret"]
    /\ UNCHANGED <<storeVars, ncalls, expect, tampered, deriveVars>>

\* GetAndUse hands the not-found error, or fn's result (or its panic), to the
\* caller
GetAndUseReturn(t) ==
    /\ th[t].pc \in {"gau_ret", "gau_err"}
    /\ th' = Return(t)
    /\ heap' = Collect(dataStore, th')
    /\ UNCHANGED <<storeVars, ncalls, expect, tampered, deriveVars>>

\* ---------------- Delete ----------------
CallDelete(t, id) ==
    /\ CanCall(t)
    /\ th' = [th EXCEPT ![t] = [Idle EXCEPT !.pc = "del_lock", !.op = "Delete",
                                            !.key = id]]
    /\ ncalls' = ncalls + 1
    /\ UNCHANGED <<storeVars, heap, expect, tampered, deriveVars>>

DeleteLock(t) == th[t].pc = "del_lock" /\ Lock(t, "del_data")

\* the entry is removed without wiping its blob
DeleteDataNoWipe(t) ==
    /\ th[t].pc = "del_data"
    /\ LET id == th[t].key
       IN  IF id \in DOMAIN dataStore
           THEN /\ dataStore' = MapDel(dataStore, id)
                /\ th' = [th EXCEPT ![t].pc = "del_key",
                                    ![t].encrypted = dataStore[id]]
           ELSE /\ UNCHANGED dataStore
                /\ th' = [th EXCEPT ![t].pc = "del_key"]
    /\ expect' = MapDel(expect, th[t].key)
    /\ tampered' = tampered \ {th[t].key}
    /\ UNCHANGED <<masterKey, keyCache, gcPercent, writer, readers,
                   heap, ncalls, deriveVars>>

\* if encrypted, exists := s.dataStore[key]; exists { wipeBytes; delete }
DeleteData(t) ==
    /\ th[t].pc = "del_data"
    /\ LET id == th[t].key
       IN  IF id \in DOMAIN dataStore
           THEN /\ heap' = [heap EXCEPT ![dataStore[id]] = wipeBytes(@)]
                /\ dataStore' = MapDel(dataStore, id)
                /\ th' = [th EXCEPT ![t].pc = "del_key",
                                    ![t].encrypted = dataStore[id]]
           ELSE /\ UNCHANGED <<heap, dataStore>>
                /\ th' = [th EXCEPT ![t].pc = "del_key"]
    /\ expect' = MapDel(expect, th[t].key)
    /\ tampered' = tampered \ {th[t].key}
    /\ UNCHANGED <<masterKey, keyCache, gcPercent, writer, readers,
                   ncalls, deriveVars>>

\* the key is wiped but its entry stays in keyCache
DeleteKeyKeepsEntry(t) ==
    /\ th[t].pc = "del_key"
    /\ LET id == th[t].key
       IN  IF id \in DOMAIN keyCache
           THEN th' = [th EXCEPT ![t].pc = "del_unlock",
                                 ![t].itemKey = wipeKey(keyCache[id])]
           ELSE th' = [th EXCEPT ![t].pc = "del_unlock"]
    /\ UNCHANGED <<masterKey, dataStore, keyCache, gcPercent, writer, readers,
                   heap, ncalls, expect, tampered, deriveVars>>

\* Delete wipes the master key together with the item key
DeleteKeyWipesMaster(t) ==
    /\ th[t].pc = "del_key"
    /\ LET id == th[t].key
       IN  IF id \in DOMAIN keyCache
           THEN /\ keyCache' = MapDel(keyCache, id)
                /\ th' = [th EXCEPT ![t].pc = "del_unlock",
                                    ![t].itemKey = wipeKey(keyCache[id])]
           ELSE /\ UNCHANGED keyCache
                /\ th' = [th EXCEPT ![t].pc = "del_unlock"]
    /\ masterKey' = wipeKey(masterKey)
    /\ UNCHANGED <<dataStore, gcPercent, writer, readers,
                   heap, ncalls, expect, tampered, deriveVars>>

\* if itemKey, exists := s.keyCache[key]; exists { wipeKey(&itemKey); delete }
\* wipeKey zeroes the local copy itemKey
DeleteKey(t) ==
    /\ th[t].pc = "del_key"
    /\ LET id == th[t].key
       IN  IF id \in DOMAIN keyCache
           THEN /\ keyCache' = MapDel(keyCache, id)
                /\ th' = [th EXCEPT ![t].pc = "del_unlock",
                                    ![t].itemKey = wipeKey(keyCache[id])]
           ELSE /\ UNCHANGED keyCache
                /\ th' = [th EXCEPT ![t].pc = "del_unlock"]
    /\ UNCHANGED <<masterKey, dataStore, gcPercent, writer, readers,
                   heap, ncalls, expect, tampered, deriveVars>>

\* runtime.GC(); deferred s.mu.Unlock()
DeleteUnlock(t) ==
    /\ th[t].pc = "del_unlock"
    /\ writer' = None
    /\ th' = Return(t)
    /\ heap' = Collect(dataStore, th')
    /\ UNCHANGED <<masterKey, dataStore, keyCache, gcPercent, readers,
                   ncalls, expect, tampered, deriveVars>>

\* ---------------- Wipe ----------------
CallWipe(t) ==
    /\ CanCall(t)
    /\ th' = [th EXCEPT ![t] = [Idle EXCEPT !.pc = "wipe_lock", !.op = "Wipe"]]
    /\ ncalls' = ncalls + 1
    /\ UNCHANGED <<storeVars, heap, expect, tampered, deriveVars>>

WipeLock(t) == th[t].pc = "wipe_lock" /\ Lock(t, "wipe_data")

\* for key, encrypted := range s.dataStore { wipeBytes(encrypted); delete }
WipeData(t) ==
    /\ th[t].pc = "wipe_data"
    /\ LET blobs == {dataStore[id] : id \in DOMAIN dataStore}
       IN  /\ heap' = [a \in DOMAIN heap |->
                          IF a \in blobs THEN wipeBytes(heap[a]) ELSE heap[a]]
           /\ th' = [th EXCEPT ![t].pc = "wipe_keys", ![t].blobs = blobs]
    /\ dataStore' = EmptyMap
    /\ expect' = EmptyMap
    /\ tampered' = {}
    /\ UNCHANGED <<masterKey, keyCache, gcPercent, writer, readers,
                   ncalls, deriveVars>>

\* for key, itemKey := range s.keyCache { wipeKey(&itemKey); delete }
WipeKeys(t) ==
    /\ th[t].pc = "wipe_keys"
    /\ keyCache' = EmptyMap
    /\ th' = [th EXCEPT ![t].pc = "wipe_master"]
    /\ UNCHANGED <<masterKey, dataStore, gcPercent, writer, readers,
                   heap, ncalls, expect, tampered, deriveVars>>

\* a copy of the master key is wiped, as for the per-item keys
WipeMasterCopy(t) ==
    /\ th[t].pc = "wipe_master"
    /\ th' = [th EXCEPT ![t].pc = "wipe_unlock",
                        ![t].itemKey = wipeKey(masterKey)]
    /\ UNCHANGED <<masterKey, dataStore, keyCache, gcPercent, writer, readers,
                   heap, ncalls, expect, tampered, deriveVars>>

\* a Wipe that finds the master key already zero draws a new one
WipeMasterRekeys(t) ==
    /\ th[t].pc = "wipe_master"
    /\ IF IsZero(masterKey) THEN masterKey' \in MasterKeys
                            ELSE masterKey' = wipeKey(masterKey)
    /\ th' = [th EXCEPT ![t].pc = "wipe_unlock"]
    /\ UNCHANGED <<dataStore, keyCache, gcPercent, writer, readers,
                   heap, ncalls, expect, tampered, deriveVars>>

\* s.wipeKey(&s.masterKey); runtime.GC()
WipeMaster(t) ==
    /\ th[t].pc = "wipe_master"
    /\ masterKey' = wipeKey(masterKey)
    /\ th' = [th EXCEPT ![t].pc = "wipe_unlock"]
    /\ UNCHANGED <<dataStore, keyCache, gcPercent, writer, readers,
                   heap, ncalls, expect, tampered, deriveVars>>

\* deferred s.mu.Unlock()
WipeUnlock(t) ==
    /\ th[t].pc = "wipe_unlock"
    /\ writer' = None
    /\ th' = Return(t)
    /\ heap' = Collect(dataStore, th')
    /\ UNCHANGED <<masterKey, dataStore, keyCache, gcPercent, readers,
                   ncalls, expect, tampered, deriveVars>>

\* ---------------- the callers ----------------
\* one step of goroutine t, its calls naming identifiers of ids
StepOn(t, ids) ==
        \/ \E id \in ids, v \in Plaintexts : CallSet(t, id, v)
        \/ SetLock(t)
        \/ \E nonce \in Nonces : SetEncrypt(t, nonce)
        \/ SetEncryptFail(t)
        \/ SetStoreData(t)
        \/ SetStoreKey(t)
        \/ SetWipe(t)
        \/ SetUnlock(t)
        \/ \E id \in ids : CallGet(t, id)
        \/ GetRLock(t)
        \/ GetLookup(t)
        \/ GetDecrypt(t)
        \/ GetRUnlock(t)
        \/ \E id \in ids : CallGetAndUse(t, id)
        \/ GetAndUseCheck(t)
        \/ \E outcome \in FnOutcomes : GetAndUseFn(t, outcome)
        \/ GetAndUseExit(t)
        \/ GetAndUseReturn(t)
        \/ \E id \in ids : CallDelete(t, id)
        \/ DeleteLock(t)
        \/ DeleteData(t)
        \/ DeleteKey(t)
        \/ DeleteUnlock(t)
        \/ CallWipe(t)
        \/ WipeLock(t)
        \/ WipeData(t)
        \/ WipeKeys(t)
        \/ WipeMaster(t)
        \/ WipeUnlock(t)

\* one step of goroutine t
Step(t) == StepOn(t, StoreIds)

Next == \E t \in Threads : Step(t)

Spec == Init /\ [][Next]_vars

\* ---------------- a stored blob corrupted from outside ----------------
\* one goroutine calls the store; between its calls one stored blob at a time
\* may have one bit flipped or be cut below the nonce length
Caller == "t1"
TamperIds == {<<107>>}
Bits == 0..7

RECURSIVE Pow2(_)
Pow2(b) == IF b = 0 THEN 1 ELSE 2 * Pow2(b - 1)

FlipBit(x, b) == IF (x \div Pow2(b)) % 2 = 1 THEN x - Pow2(b) ELSE x + Pow2(b)

CanTamper(id) ==
    /\ \A t \in Threads : th[t].pc = "idle"
    /\ id \in DOMAIN dataStore
    /\ tampered = {}

TamperFlip(id, pos, bit) ==
    /\ CanTamper(id)
    /\ pos \in 1..Len(heap[dataStore[id]])
    /\ heap' = [heap EXCEPT ![dataStore[id]] = [@ EXCEPT ![pos] = FlipBit(@, bit)]]
    /\ tampered' = tampered \cup {id}
    /\ UNCHANGED <<storeVars, th, ncalls, expect, deriveVars>>

TamperTruncate(id, n) ==
    /\ CanTamper(id)
    /\ heap' = [heap EXCEPT ![dataStore[id]] = SubSeq(@, 1, n)]
    /\ tampered' = tampered \cup {id}
    /\ UNCHANGED <<storeVars, th, ncalls, expect, deriveVars>>

NextTamper ==
    \/ StepOn(Caller, TamperIds)
    \/ \E id \in TamperIds, pos \in 1..(NonceSize + MaxLen + TagSize), bit \in Bits :
           TamperFlip(id, pos, bit)
    \/ \E id \in TamperIds, n \in 0..(NonceSize - 1) : TamperTruncate(id, n)

SpecTamper == Init /\ [][NextTamper]_vars

\* ---------------- fn calling back into the store ----------------
NestedIds == {<<107>>}

\* a step of t's code once a call is in progress (fn is taken to return)
Progress(t) == th[t].pc # "idle" /\ StepOn(t, NestedIds)

NextNested ==
    \E t \in Threads :
        \/ StepOn(t, NestedIds)
        \/ \E id \in NestedIds, v \in Plaintexts : FnCallSet(t, id, v)
        \/ \E id \in NestedIds : FnCallGet(t, id)
        \/ \E id \in NestedIds : FnCallDelete(t, id)
        \/ FnCallWipe(t)

\* the Go scheduler keeps running every goroutine that can take a step
SpecNested ==
    Init /\ [][NextNested]_vars /\ \A t \in Threads : WF_vars(Progress(t))

\* ---------------- deriveKey on its own ----------------
Prefix8 == <<112, 97, 115, 115, 119, 111, 114, 100>>
IdBytes == {0, 97, 98}
DeriveIds == {p \o x : p \in {<<>>, Prefix8}, x \in SeqsUpTo(IdBytes, MaxSuffix)}

InitDerive ==
    /\ NewSecureStore
    /\ heap = EmptyMap
    /\ th = [t \in Threads |-> Idle]
    /\ ncalls = 0
    /\ expect = EmptyMap
    /\ tampered = {}
    /\ idA \in DeriveIds /\ idB \in DeriveIds
    /\ keyA = <<>> /\ keyB = <<>>

DeriveA ==
    /\ keyA = <<>>
    /\ keyA' = deriveKey(masterKey, idA)
    /\ UNCHANGED <<storeVars, heap, th, ncalls, expect, tampered, idA, idB, keyB>>

DeriveB ==
    /\ keyB = <<>>
    /\ keyB' = deriveKey(masterKey, idB)
    /\ UNCHANGED <<storeVars, heap, th, ncalls, expect, tampered, idA, idB, keyA>>

NextDerive == DeriveA \/ DeriveB

SpecDerive == InitDerive /\ [][NextDerive]_vars

\* ======================= properties =======================
At(t, label) == th[t].pc = label

\* what Get computes from the store for identifier id, under the read lock
Stored(id) == decryptData(heap[dataStore[id]], keyCache[id])

\* C1: round trip - a Get(k) that follows a stored Set(k, v), with no Set,
\* Delete or Wipe of k in between, finds k and returns the bytes v held
\* before Set zeroed the caller's buffer.  Checked where Get still holds the
\* read lock with its result computed.
RoundTrip ==
    \A t \in Threads :
        (At(t, "get_runlock") /\ th[t].key \in DOMAIN expect)
            => /\ th[t].found
               /\ heap[th[t].data] = expect[th[t].key]

RoundTripWitness ==
    \E t \in Threads :
        /\ At(t, "get_runlock") /\ th[t].op = "Get"
        /\ th[t].key \in DOMAIN expect
        /\ expect[th[t].key] # <<>>
        /\ th[t].found
        /\ heap[th[t].data] = expect[th[t].key]

\* C2: whenever no goroutine holds the write lock, dataStore and keyCache
\* hold the same identifiers.
MappingsAgree == (writer = None) => (DOMAIN dataStore = DOMAIN keyCache)

\* an entry was deleted while another one stays
MappingsAgreeWitness ==
    /\ writer = None
    /\ ncalls = MaxCalls
    /\ \A t \in Threads : At(t, "idle")
    /\ Cardinality(DOMAIN dataStore) = 1
    /\ DOMAIN dataStore = DOMAIN keyCache

\* C3: when Set is about to return nil, the caller's buffer is all zero and
\* the blob stored for the identifier is the one sealed from the original
\* bytes: it is another array and still opens to them.
SetWipesInput ==
    \A t \in Threads :
        (At(t, "set_unlock") /\ th[t].ret = "ok")
            => /\ IsZero(heap[th[t].data])
               /\ Len(heap[th[t].data]) = Len(th[t].plain)
               /\ dataStore[th[t].key] = th[t].encrypted
               /\ th[t].encrypted # th[t].data
               /\ Stored(th[t].key) = [ok |-> TRUE, pt |-> th[t].plain]

SetWipesInputWitness ==
    \E t \in Threads :
        /\ At(t, "set_unlock") /\ th[t].ret = "ok"
        /\ th[t].plain # <<>> /\ ~IsZero(th[t].plain)
        /\ IsZero(heap[th[t].data])
        /\ Stored(th[t].key).pt = th[t].plain

\* C4: when Set replaces the entry of an identifier that is present, the
\* array behind the previous blob has been overwritten with zeros.
PriorEntryWiped ==
    [][\A t \in Threads :
          (At(t, "set_store_data") /\ th'[t].pc = "set_store_key"
              /\ th[t].key \in DOMAIN dataStore)
            => IsZero(heap'[dataStore[th[t].key]])]_vars

\* C5: when Delete(k) is about to return, k is in neither mapping and the
\* array behind the blob it removed is all zero; and a Get finds only
\* identifiers that are in both mappings, so Get(k) finds nothing until a
\* later Set(k, ...).
DeleteErases ==
    \A t \in Threads :
        /\ At(t, "del_unlock")
            => /\ th[t].key \notin DOMAIN dataStore
               /\ th[t].key \notin DOMAIN keyCache
               /\ th[t].encrypted # Nil => IsZero(heap[th[t].encrypted])
        /\ (At(t, "get_runlock") /\ th[t].found)
            => /\ th[t].key \in DOMAIN dataStore
               /\ th[t].key \in DOMAIN keyCache

DeleteErasesWitness ==
    \E t \in Threads :
        /\ At(t, "del_unlock")
        /\ th[t].encrypted # Nil
        /\ Len(heap[th[t].encrypted]) > NonceSize + TagSize
        /\ IsZero(heap[th[t].encrypted])
        /\ th[t].key \notin DOMAIN dataStore

\* C6: when Wipe is about to return, both mappings are empty, every array
\* that backed a blob of the store Wipe found is all zero, and the master
\* key is all zero.
WipeErases ==
    \A t \in Threads :
        At(t, "wipe_unlock")
            => /\ DOMAIN dataStore = {}
               /\ DOMAIN keyCache = {}
               /\ \A a \in th[t].blobs : IsZero(heap[a])
               /\ IsZero(masterKey)

WipeErasesWitness ==
    \E t \in Threads :
        /\ At(t, "wipe_unlock")
        /\ Cardinality(th[t].blobs) = 2
        /\ \A a \in th[t].blobs : IsZero(heap[a])
        /\ IsZero(masterKey)

\* C7: when GetAndUse hands control back, the buffer it gave to fn is all
\* zero, whether fn returned nil, returned an error or panicked.
ScopedRelease ==
    \A t \in Threads : At(t, "gau_ret") => IsZero(heap[th[t].data])

ScopedReleaseWitness ==
    \E t \in Threads :
        /\ At(t, "gau_ret") /\ th[t].fnOut = "panic"
        /\ th[t].plain # <<>> /\ ~IsZero(th[t].plain)
        /\ IsZero(heap[th[t].data])

\* C8: the buffer passed to Set is all zero on every return of Set, the one
\* after a failed seal included.
SetAlwaysWipes ==
    \A t \in Threads : At(t, "set_unlock") => IsZero(heap[th[t].data])

\* C9: two distinct identifiers, of any lengths, derive distinct keys from
\* the same master key.
DerivationDistinct ==
    (keyA # <<>> /\ keyB # <<>> /\ idA # idB) => keyA # keyB

\* C10: when Wipe is about to return, the GC percent is no longer the -1
\* set at construction.
WipeRestoresGC ==
    \A t \in Threads : At(t, "wipe_unlock") => gcPercent # GCOff


\* positions between s.mu.Lock() and s.mu.Unlock(), and between s.mu.RLock()
\* and s.mu.RUnlock()
WriterPcs ==
    {"set_encrypt", "set_store_data", "set_store_key", "set_wipe", "set_unlock",
     "del_data", "del_key", "del_unlock",
     "wipe_data", "wipe_keys", "wipe_master", "wipe_unlock"}
ReaderPcs == {"get_lookup", "get_decrypt", "get_runlock"}

\* C11: while a goroutine is inside Set, Delete or Wipe no other goroutine
\* is inside a mutation or inside Get's lookup and decrypt; and while a Get
\* is inside its lookup and decrypt the two mappings hold the same
\* identifiers, each stored blob opening under its cached key.
ExclusiveMutation ==
    \A t \in Threads :
        /\ th[t].pc \in WriterPcs
            => /\ writer = t
               /\ \A u \in Threads \ {t} : th[u].pc \notin WriterPcs \cup ReaderPcs
        /\ th[t].pc \in ReaderPcs
            => /\ t \in readers
               /\ DOMAIN dataStore = DOMAIN keyCache
               /\ \A id \in DOMAIN dataStore : Stored(id).ok

\* a writer is between its two map assignments while a Get and a Delete wait
ExclusiveMutationWitness ==
    \E t \in Threads, u \in Threads :
        /\ At(t, "set_store_key")
        /\ th[t].key \in DOMAIN dataStore /\ th[t].key \notin DOMAIN keyCache
        /\ th[u].pc \in {"get_rlock", "del_lock", "wipe_lock", "set_lock"}


\* C12: after one bit of the blob stored for k was flipped (in the nonce,
\* the ciphertext or the tag), or the blob was cut below the nonce length,
\* the next Get(k) reports not-found and hands out no plaintext, and
\* GetAndUse(k, fn) never reaches fn.
TamperRejected ==
    \A t \in Threads :
        /\ (At(t, "get_runlock") /\ th[t].key \in tampered)
            => (~th[t].found /\ th[t].data = Nil)
        /\ th[t].pc \in {"gau_fn", "gau_exit", "gau_ret"}
            => th[t].key \notin tampered

\* GetAndUse's lookup has just failed on a blob with one flipped bit
TamperRejectedWitness ==
    \E t \in Threads :
        /\ At(t, "get_runlock") /\ th[t].gau = "get"
        /\ th[t].key \in tampered
        /\ Len(heap[th[t].encrypted]) > NonceSize + TagSize
        /\ ~th[t].found

\* C13: GetAndUse on an identifier that is absent returns the not-found error
\* without having invoked fn; on an identifier that is present and opens, it
\* invokes fn exactly once and returns exactly what fn returned.
GetAndUseContract ==
    \A t \in Threads :
        /\ (At(t, "get_runlock") /\ th[t].op = "GetAndUse") =>
               (th[t].found <=> /\ th[t].key \in DOMAIN dataStore
                                /\ th[t].key \in DOMAIN keyCache
                                /\ Stored(th[t].key).ok)
        /\ At(t, "gau_fn") => th[t].found /\ th[t].fnCalls = 0
        /\ At(t, "gau_err") =>
               ~th[t].found /\ th[t].fnCalls = 0 /\ th[t].ret = "notfound"
        /\ At(t, "gau_ret") =>
               /\ th[t].found /\ th[t].fnCalls = 1
               /\ th[t].fnOut \in FnOutcomes /\ th[t].ret = th[t].fnOut

\* one call has ended on an absent identifier while another, on a stored
\* identifier, hands back the error its fn returned
GetAndUseContractWitness ==
    \E t \in Threads, u \in Threads :
        /\ At(t, "gau_err") /\ th[t].key \notin DOMAIN dataStore
        /\ At(u, "gau_ret") /\ th[u].fnOut = "err"
        /\ th[u].key \in DOMAIN dataStore

\* the store as a wiped store is: no entry in either map, master key zero
Emptied == dataStore = EmptyMap /\ keyCache = EmptyMap /\ IsZero(masterKey)

\* C14: Wipe is idempotent: every step of a Wipe that runs on an already
\* emptied store leaves the two maps, the master key, the GC setting and every
\* byte buffer as they were.
WipeIdempotent ==
    [][\A t \in Threads :
          (/\ th[t].pc \in {"wipe_data", "wipe_keys", "wipe_master"}
           /\ th'[t].pc # th[t].pc
           /\ Emptied)
          => (Emptied' /\ UNCHANGED <<masterKey, dataStore, keyCache,
                                      gcPercent, heap>>)]_vars

\* a second Wipe, issued right after the first, has been through its two loops
\* and is about to wipe the master key again
WipeIdempotentWitness ==
    \E t \in Threads :
        /\ At(t, "wipe_master") /\ Emptied /\ ncalls = 2
        /\ \A u \in Threads \ {t} : th[u].pc = "idle"

\* C15: when sealing fails, Set hands the error to its caller, and the steps of
\* that failing Set change neither map nor the bytes of any stored blob: an
\* absent identifier stays absent, a present one keeps its ciphertext and key.
SealFailureFrame ==
    [][\A t \in Threads :
          /\ (th[t].pc = "set_encrypt" /\ th'[t].pc = "set_unlock")
                 => th'[t].ret = "err"
          /\ (/\ th[t].op = "Set"
              /\ th'[t].pc # th[t].pc
              /\ (th[t].ret = "err" \/ th'[t].ret = "err"))
             => /\ UNCHANGED <<dataStore, keyCache, masterKey>>
                /\ \A id \in DOMAIN dataStore :
                       heap'[dataStore[id]] = heap[dataStore[id]]]_vars

\* a Set on an identifier that already holds a value has failed to seal and is
\* about to return; the earlier value still opens
SealFailureFrameWitness ==
    \E t \in Threads :
        /\ At(t, "set_unlock") /\ th[t].ret = "err"
        /\ th[t].key \in DOMAIN dataStore /\ th[t].key \in DOMAIN keyCache
        /\ Stored(th[t].key).ok /\ Stored(th[t].key).pt = expect[th[t].key]

\* C16: the master key is written only at construction and by Wipe: a step
\* that changes it is Wipe's wipeKey(&s.masterKey), and no step of Set, Get,
\* GetAndUse or Delete changes it, so until a Wipe has reached that statement
\* the key is the one drawn at construction.
MasterKeyFrame ==
    [][masterKey' # masterKey =>
          \E t \in Threads : /\ th[t].op = "Wipe" /\ th[t].pc = "wipe_master"
                             /\ th'[t].pc = "wipe_unlock"
                             /\ masterKey' = ZeroKey]_vars

\* a Set and then a Delete have acted on an entry, every call has been issued,
\* no Wipe has run, and the master key is still a construction-time key
MasterKeyFrameWitness ==
    \E t \in Threads :
        /\ At(t, "del_unlock") /\ th[t].encrypted # Nil /\ ncalls = MaxCalls
        /\ masterKey \in MasterKeys /\ gcPercent = GCOff
        /\ \A u \in Threads : th[u].op # "Wipe"

\* the maps, the master key, the GC setting and the bytes of every stored blob
\* are the same after the step as before it
StoreKept ==
    /\ UNCHANGED <<dataStore, keyCache, masterKey, gcPercent>>
    /\ \A id \in DOMAIN dataStore : heap'[dataStore[id]] = heap[dataStore[id]]

\* C17: Delete on an identifier absent from both maps is a no-op: none of its
\* steps changes a map, another entry's ciphertext or key, or the master key;
\* and Get on an absent identifier returns (nil, false) and changes nothing of
\* the store either.
AbsentIsNoOp ==
    /\ [](\A t \in Threads :
             (At(t, "get_runlock") /\ th[t].key \notin DOMAIN dataStore)
                 => (~th[t].found /\ th[t].data = Nil))
    /\ [][\A t \in Threads :
             /\ (/\ th[t].op = "Delete"
                 /\ th[t].pc \in {"del_data", "del_key", "del_unlock"}
                 /\ th'[t].pc # th[t].pc
                 /\ th[t].key \notin DOMAIN dataStore
                 /\ th[t].key \notin DOMAIN keyCache) => StoreKept
             /\ (/\ th[t].op = "Get"
                 /\ th'[t].pc # th[t].pc
                 /\ th[t].key \notin DOMAIN dataStore) => StoreKept]_vars

\* a Delete that found its identifier in neither map is about to return while
\* another identifier's entry is stored and still opens
AbsentIsNoOpWitness ==
    \E t \in Threads, id \in StoreIds :
        /\ At(t, "del_unlock") /\ th[t].encrypted = Nil
        /\ th[t].key # id /\ th[t].key \notin DOMAIN dataStore
        /\ id \in DOMAIN dataStore /\ id \in DOMAIN keyCache
        /\ Stored(id).ok /\ Stored(id).pt = expect[id]

\* C18: a Get running beside Delete, Wipe or Set of the same identifier is
\* linearizable: the blob and key it decrypts are the ones the maps hold at
\* that moment, never a zeroed buffer, and a value it returns as found is the
\* value a Set stored for the identifier in full.
GetLinearizable ==
    \A t \in Threads :
        /\ At(t, "get_decrypt") =>
               /\ th[t].key \in DOMAIN dataStore
               /\ th[t].key \in DOMAIN keyCache
               /\ dataStore[th[t].key] = th[t].encrypted
               /\ keyCache[th[t].key] = th[t].itemKey
               /\ ~IsZero(heap[th[t].encrypted])
               /\ decryptData(heap[th[t].encrypted], th[t].itemKey).ok
               /\ decryptData(heap[th[t].encrypted], th[t].itemKey).pt
                      = expect[th[t].key]
        /\ (At(t, "get_runlock") /\ th[t].found) =>
               /\ th[t].key \in DOMAIN expect
               /\ heap[th[t].data] = expect[th[t].key]

\* a Get is about to decrypt the blob of an identifier while a Delete of that
\* identifier, issued meanwhile, waits for the lock
GetLinearizableWitness ==
    \E t \in Threads, u \in Threads :
        /\ At(t, "get_decrypt") /\ th[t].op = "Get"
        /\ At(u, "del_lock") /\ th[u].key = th[t].key

\* the GetAndUse frames whose fn has been entered and has not returned yet
FnFrames ==
    {th[t] : t \in {u \in Threads : th[u].pc = "gau_fn"}}
        \cup {th[t].outer[1] : t \in {u \in Threads : th[u].outer # <<>>}}

\* fn runs without the store's lock and on a buffer of its own
FnUnlocked ==
    /\ \A t \in Threads :
           th[t].pc = "gau_fn" => (t \notin readers /\ writer # t)
    /\ \A f \in FnFrames :
           /\ f.pc = "gau_fn" /\ f.found
           /\ f.data \notin {dataStore[id] : id \in DOMAIN dataStore}
           /\ f.plain \in Plaintexts
           /\ heap[f.data] = f.plain

\* C19: GetAndUse runs fn only once Get has released the read lock, on a fresh
\* copy of the plaintext that stays intact whatever Delete or Wipe do
\* meanwhile; so an fn that calls Set, Get, Delete or Wipe on the store is not
\* blocked by its own GetAndUse, and under fair scheduling every GetAndUse
\* call returns.
ReentrantGetAndUse ==
    /\ []FnUnlocked
    /\ \A t \in Threads :
           (th[t].op = "GetAndUse" \/ th[t].outer # <<>>) ~> (th[t].pc = "idle")

\* fn has called Wipe on the store from inside GetAndUse; that Wipe holds the
\* write lock and has erased every entry, and fn's plaintext is still intact
ReentrantGetAndUseWitness ==
    \E t \in Threads :
        /\ At(t, "wipe_unlock") /\ th[t].outer # <<>> /\ writer = t
        /\ Emptied
        /\ Len(th[t].outer[1].plain) > 0
        /\ heap[th[t].outer[1].data] = th[t].outer[1].plain

\* C20: once Wipe has zeroed the master key it stays zero: no later step draws
\* a new one, and a Set issued afterwards still succeeds, caching for its
\* identifier the key derived from the all-zero master key and storing a blob
\* that opens under it.
ZeroMasterKeyKept ==
    /\ [][IsZero(masterKey) => IsZero(masterKey')]_vars
    /\ [](\A t \in Threads :
             (At(t, "set_unlock") /\ th[t].ret = "ok" /\ IsZero(masterKey))
                 => /\ th[t].key \in DOMAIN keyCache
                    /\ th[t].key \in DOMAIN dataStore
                    /\ keyCache[th[t].key] = deriveKey(ZeroKey, th[t].key)
                    /\ Stored(th[t].key).ok
                    /\ Stored(th[t].key).pt = expect[th[t].key])

\* a Set issued after a Wipe has stored its value under the key derived from
\* the zeroed master key and is about to return nil
ZeroMasterKeyKeptWitness ==
    \E t \in Threads :
        /\ At(t, "set_unlock") /\ th[t].ret = "ok" /\ IsZero(masterKey)
        /\ Len(th[t].plain) > 0
        /\ keyCache[th[t].key] = deriveKey(ZeroKey, th[t].key)
        /\ keyCache[th[t].key] # ZeroKey
====
